---- MODULE Spec2Model ----
(***************************************************************************)
(* Model of the oceanflow Monte Carlo simulation core:                     *)
(*   - the worker (monte-carlo-worker, second half of transit-simulator.tsx)*)
(*     with its batch orchestrator runMonteCarloSimulation,                *)
(*   - the zustand simulation store that owns the workers                  *)
(*     (client/src/store/simulation-store.ts),                             *)
(*   - the outcome compositor runSingleIteration and its samplers.         *)
(*                                                                         *)
(* Spec     : store + workers (orchestration, messages in flight).         *)
(* SpecRun  : Spec restricted to sessions that start a single run.         *)
(* SpecIter : one lane, repeated calls of runSingleIteration.              *)
(***************************************************************************)
EXTENDS Integers, Sequences, FiniteSets, TLC

VARIABLES
    isRunning,         \* store.isRunning
    progress,          \* store.progress, an exact rational [num, den]
    currentIteration,  \* store.currentIteration
    totalIterations,   \* store.totalIterations
    results,           \* store.results (NULL or the results record)
    worker,            \* store.worker (0 for null, or a worker id)
    workers,           \* every Worker ever constructed, by id
    created,           \* number of Workers constructed so far
    controls,          \* number of pause/resume calls so far
    selection,         \* the SimulationParams the page passes to startSimulation
    cancelled,         \* history: a mid-run reset happened, no start since
    ended,             \* history: the latest run's 'complete'/'error' was handled
    itParams,          \* SpecIter: the SimulationParams of the run
    itOutcome,         \* SpecIter: the SimulationResult of the latest iteration
    itSamples,         \* SpecIter: the segment samples summed by that iteration
    itDone,            \* SpecIter: iterations performed so far
    itDraws,           \* SpecIter: the draws of that iteration's factor samplers
    smCall,            \* SpecSampler: the sampler applied last (NULL for none)
    smResult,          \* SpecSampler: the variate that call returned
    stData,            \* SpecStats: the array passed to the statistics library
    stValue,           \* SpecStats: the value passed with it
    stCall,            \* SpecStats: the library function applied last ("" for none)
    stResult,          \* SpecStats: what that call returned, or that it threw
    quote,             \* QuoteAnalyzer: props.quote (its rate)
    lane,              \* QuoteAnalyzer: props.lane (NULL or [baseRate])
    analyzing,         \* QuoteAnalyzer: state analyzing
    evaluation,        \* QuoteAnalyzer: state evaluation (NULL or a QuoteEvaluation)
    timers,            \* QuoteAnalyzer: pending 2 s timers, oldest first
    effects,           \* QuoteAnalyzer: runs of the [quote, lane] effect so far
    altAnalyzing,      \* AlternativeEvaluator: state analyzing
    altResults,        \* AlternativeEvaluator: state results (NULL or the strategies)
    altTimer,          \* AlternativeEvaluator: pending 3 s timer (NULL or its quote)
    altQuote           \* AlternativeEvaluator: props.quote (its rate)

storeVars == <<isRunning, progress, currentIteration, totalIterations, results, worker>>
iterVars  == <<itParams, itOutcome, itSamples, itDone, itDraws, smCall, smResult>>
statVars  == <<stData, stValue, stCall, stResult>>
quoteVars == <<quote, lane, analyzing, evaluation, timers, effects>>
altVars   == <<altAnalyzing, altResults, altTimer, altQuote>>
libVars   == <<stData, stValue, stCall, stResult,
               quote, lane, analyzing, evaluation, timers, effects,
               altAnalyzing, altResults, altTimer, altQuote>>
vars == <<isRunning, progress, currentIteration, totalIterations, results, worker,
          workers, created, controls, selection, cancelled, ended,
          itParams, itOutcome, itSamples, itDone, itDraws, smCall, smResult,
          stData, stValue, stCall, stResult,
          quote, lane, analyzing, evaluation, timers, effects,
          altAnalyzing, altResults, altTimer, altQuote>>

NULL == [null |-> TRUE]

\* the statistics library not called, the decision components not mounted
StatsIdle == stData = <<>> /\ stValue = 0 /\ stCall = "" /\ stResult = NULL

QuoteAnalyzerIdle ==
    /\ quote = 0 /\ lane = NULL /\ analyzing = FALSE /\ evaluation = NULL
    /\ timers = <<>> /\ effects = 0

AlternativeEvaluatorIdle ==
    altAnalyzing = FALSE /\ altResults = NULL /\ altTimer = NULL /\ altQuote = 0

LibIdle == StatsIdle /\ QuoteAnalyzerIdle /\ AlternativeEvaluatorIdle

(***************************************************************************)
(* Bounds                                                                  *)
(***************************************************************************)
MaxRuns    == 2     \* Workers constructed in one behaviour
MaxBatches == 3     \* largest number of batches of one run
MaxControls == 1    \* pauseSimulation/resumeSimulation calls in one behaviour
MaxSamples == 2     \* calls of runSingleIteration in one behaviour of SpecIter

(***************************************************************************)
(* Program constants                                                       *)
(***************************************************************************)
batchSize == 100

Min(a, b) == IF a < b THEN a ELSE b
Max(a, b) == IF a > b THEN a ELSE b

\* Math.ceil(a / b) for integers a and b > 0 (Math.ceil(-0.05) is -0)
CeilDiv(a, b) == -((-a) \div b)

(***************************************************************************)
(* Numbers the store compares: progress is kept as the exact quotient      *)
(* num/den; den = 0 is the NaN that 0/0 produces.                          *)
(***************************************************************************)
Num(n) == [num |-> n, den |-> 1]
EqNum(p, n) == p.den # 0 /\ p.num = n * p.den
GtNum(p, n) == \/ p.den > 0 /\ p.num > n * p.den
               \/ p.den < 0 /\ p.num < n * p.den
LtNum(p, n) == \/ p.den > 0 /\ p.num < n * p.den
               \/ p.den < 0 /\ p.num > n * p.den

\* (completedIterations / params.iterations) * 100
ProgressOf(completedIterations, iterations) ==
    [num |-> completedIterations * 100, den |-> iterations]

(***************************************************************************)
(* Inputs of a run                                                         *)
(***************************************************************************)
NoThrow == -1

\* iteration counts around every batch boundary, and the non-positive ones
IterationChoices ==
    {-1, 0, 1} \cup UNION { {k * batchSize, k * batchSize + 1} :
                              k \in 1..(MaxBatches - 1) }

\* the iteration at which the Compositor throws (NoThrow: it never does)
ThrowChoices == {NoThrow} \cup { k * batchSize : k \in 0..(MaxBatches - 1) }

BaseRateChoices == {-1000, 0}

\* the largest iteration count: MaxBatches batches, the last one partial
LargestRun == (MaxBatches - 1) * batchSize + 1

ParamChoices ==
    { [iterations |-> n, baseRate |-> 1000, throwAt |-> NoThrow] :
          n \in IterationChoices }
    \cup { [iterations |-> LargestRun, baseRate |-> 1000, throwAt |-> t] :
          t \in ThrowChoices \ {NoThrow} }
    \cup { [iterations |-> 1, baseRate |-> b, throwAt |-> NoThrow] :
          b \in BaseRateChoices }

(***************************************************************************)
(* Messages                                                                *)
(***************************************************************************)
ProgressMsg(p, c) == [type |-> "progress", progress |-> p, completedIterations |-> c,
                      data |-> <<>>]
CompleteMsg(d)    == [type |-> "complete", progress |-> Num(0), completedIterations |-> 0,
                      data |-> d]
ErrorMsg          == [type |-> "error", progress |-> Num(0), completedIterations |-> 0,
                      data |-> <<>>]

NoParams == [iterations |-> 0, baseRate |-> 0, throwAt |-> NoThrow]

\* a Worker that has not been constructed yet
NoWorker ==
    [pc |-> "none", alive |-> FALSE, params |-> NoParams,
     batchIndex |-> 0, completedIterations |-> 0, results |-> <<>>,
     inbox |-> <<>>, outbox |-> <<>>, posted |-> <<>>, sincePause |-> -1,
     timerYields |-> 0]

WorkerIds == 1..MaxRuns

(***************************************************************************)
(* Worker: runMonteCarloSimulation / processBatch                          *)
(***************************************************************************)
\* const totalBatches = Math.ceil(params.iterations / batchSize)
TotalBatches(iterations) == CeilDiv(iterations, batchSize)

BatchStart(batchIndex) == batchIndex * batchSize

\* mutant: the batch end is not capped by the iteration count
BatchEndUncapped(batchStart, iterations) == batchStart + batchSize

\* const batchEnd = Math.min(batchStart + batchSize, params.iterations)
BatchEnd(batchStart, iterations) == Min(batchStart + batchSize, iterations)

\* mutant: the outcome is stamped with its position inside the batch
IterationIndexInBatch(i, batchStart) == i - batchStart

\* result.iteration = i
IterationIndex(i, batchStart) == i

\* the Compositor throws inside the loop of this batch
ThrowsIn(params, batchIndex) ==
    /\ params.throwAt # NoThrow
    /\ params.throwAt >= BatchStart(batchIndex)
    /\ params.throwAt < BatchEnd(BatchStart(batchIndex), params.iterations)

\* the for loop of processBatch: the index one past the last iteration pushed
LoopEnd(params, batchIndex) ==
    IF ThrowsIn(params, batchIndex)
    THEN params.throwAt
    ELSE BatchEnd(BatchStart(batchIndex), params.iterations)

\* the outcomes the loop pushes, in order (an outcome is known here by the
\* iteration index the loop stamps on it)
Pushed(params, batchIndex) ==
    LET batchStart == BatchStart(batchIndex)
        n == Max(0, LoopEnd(params, batchIndex) - batchStart)
    IN  [k \in 1..n |-> IterationIndex(batchStart + k - 1, batchStart)]

\* the progress value processBatch posts after its loop
BatchProgress(completedIterations, iterations) ==
    ProgressOf(completedIterations, iterations)

\* batchIndex < totalBatches - 1 : another batch is scheduled with setTimeout
HasNextBatch(batchIndex, iterations) == batchIndex < TotalBatches(iterations) - 1

Post(r, m) == [r EXCEPT !.outbox = Append(@, m), !.posted = Append(@, m)]

\* One call of processBatch(batchIndex) in worker record r, together with the
\* continuation of `await runMonteCarloSimulation` when the promise settles in
\* this task.  inExecutor: the call is the synchronous one inside the promise
\* executor's try block (batch 0); otherwise it is a setTimeout callback.
processBatch(r, batchIndex, inExecutor) ==
    LET params == r.params
        pushed == Pushed(params, batchIndex)
        r1 == [r EXCEPT !.results = @ \o pushed,
                        !.completedIterations = @ + Len(pushed),
                        !.sincePause = IF @ >= 0 THEN Min(@ + 1, 2) ELSE @]
    IN  IF ThrowsIn(params, batchIndex)
        THEN IF inExecutor
             THEN \* catch (error) { reject(error) } ; onmessage's catch posts 'error'
                  Post([r1 EXCEPT !.pc = "rejected"], ErrorMsg)
             ELSE \* uncaught exception in a timer callback: the promise never settles
                  [r1 EXCEPT !.pc = "crashed"]
        ELSE LET r2 == Post(r1, ProgressMsg(
                           BatchProgress(r1.completedIterations, params.iterations),
                           r1.completedIterations))
             IN  IF HasNextBatch(batchIndex, params.iterations)
                 THEN [r2 EXCEPT !.pc = "timer", !.batchIndex = batchIndex + 1]
                 ELSE \* resolve(results); onmessage posts 'complete'
                      Post([r2 EXCEPT !.pc = "resolved"], CompleteMsg(r2.results))

\* self.onmessage for one message of the worker's queue
WorkerOnMessage(w) ==
    /\ workers[w].alive
    /\ workers[w].inbox # <<>>
    /\ LET r == workers[w]
           m == Head(r.inbox)
           r0 == [r EXCEPT !.inbox = Tail(@)]
       IN  workers' = [workers EXCEPT ![w] =
              IF m = "start"
              THEN processBatch(Post(r0, ProgressMsg(Num(0), 0)), 0, TRUE)
              ELSE \* no branch for any other type: the message is dropped
                   [r0 EXCEPT !.sincePause = IF m = "pause" THEN 0 ELSE -1]]
    /\ UNCHANGED <<storeVars, created, controls, selection, cancelled, ended, iterVars, libVars>>

\* the setTimeout(() => processBatch(batchIndex + 1), 0) callback
WorkerTimer(w) ==
    /\ workers[w].alive
    /\ workers[w].pc = "timer"
    /\ workers' = [workers EXCEPT ![w] =
          processBatch([@ EXCEPT !.timerYields = @ + 1], @.batchIndex, FALSE)]
    /\ UNCHANGED <<storeVars, created, controls, selection, cancelled, ended, iterVars, libVars>>

\* Worker.terminate(): the worker stops, its queued tasks and the messages it
\* has posted but that were not yet dispatched are discarded
Terminate(r) == [r EXCEPT !.alive = FALSE, !.inbox = <<>>, !.outbox = <<>>]

\* worker.postMessage(m) from the main thread
PostToWorker(r, m) == IF r.alive THEN [r EXCEPT !.inbox = Append(@, m)] ELSE r


(***************************************************************************)
(* Store: simulation-store.ts                                              *)
(***************************************************************************)
\* calculateStatistics throws on an empty dataset
StatisticsThrows(data) == Len(data) = 0

\* setResults(rawResults) followed by the set({... results: {...results, duration}})
ResultsOf(data) == [rateDistribution |-> data, transitDistribution |-> data,
                    hasStats |-> TRUE]

\* useSimulationStatus
isComplete == EqNum(progress, 100) /\ ~isRunning
isPaused   == ~isRunning /\ GtNum(progress, 0) /\ LtNum(progress, 100)
isIdle     == ~isRunning /\ EqNum(progress, 0)

\* startSimulation(params): a new Worker with its onmessage closure, the
\* 'start' message, and the store reset to a running state
startSimulation(p) ==
    /\ created < MaxRuns
    /\ LET w == created + 1
       IN  /\ workers' = [workers EXCEPT ![w] =
                  [NoWorker EXCEPT !.pc = "new", !.alive = TRUE, !.params = p,
                                   !.inbox = <<"start">>]]
           /\ worker' = w
    /\ created' = created + 1
    /\ isRunning' = TRUE
    /\ progress' = Num(0)
    /\ currentIteration' = 0
    /\ totalIterations' = p.iterations
    /\ results' = NULL
    /\ cancelled' = FALSE
    /\ ended' = FALSE
    /\ UNCHANGED <<controls, selection, iterVars, libVars>>

\* pauseSimulation()
pauseSimulation ==
    /\ worker # 0
    /\ controls < MaxControls
    /\ controls' = controls + 1
    /\ workers' = [workers EXCEPT ![worker] = PostToWorker(@, "pause")]
    /\ isRunning' = FALSE
    /\ UNCHANGED <<progress, currentIteration, totalIterations, results, worker,
                   created, selection, cancelled, ended, iterVars, libVars>>

\* resumeSimulation()
resumeSimulation ==
    /\ worker # 0
    /\ controls < MaxControls
    /\ controls' = controls + 1
    /\ workers' = [workers EXCEPT ![worker] = PostToWorker(@, "resume")]
    /\ isRunning' = TRUE
    /\ UNCHANGED <<progress, currentIteration, totalIterations, results, worker,
                   created, selection, cancelled, ended, iterVars, libVars>>

\* the run of the store's worker is between its first and its last batch
MidRun(w) == /\ workers[w].alive
             /\ workers[w].pc = "timer"
             /\ workers[w].completedIterations > 0

\* resetSimulation()
resetSimulation ==
    /\ workers' = IF worker # 0
                  THEN [workers EXCEPT ![worker] = Terminate(@)]
                  ELSE workers
    /\ cancelled' = IF worker # 0 /\ MidRun(worker) THEN TRUE ELSE cancelled
    /\ isRunning' = FALSE
    /\ progress' = Num(0)
    /\ currentIteration' = 0
    /\ totalIterations' = 0
    /\ results' = NULL
    /\ worker' = 0
    /\ UNCHANGED <<created, controls, selection, ended, iterVars, libVars>>

\* worker.onmessage of the closure startSimulation built for Worker w,
\* dispatched for the oldest message w has posted
OnMessage(w) ==
    /\ workers[w].outbox # <<>>
    /\ LET m == Head(workers[w].outbox)
           consumed == [workers EXCEPT ![w].outbox = Tail(@)]
       IN  CASE m.type = "progress" ->
                  /\ progress' = m.progress
                  /\ currentIteration' = m.completedIterations
                  /\ workers' = consumed
                  /\ UNCHANGED <<isRunning, results, worker, ended>>
             [] m.type = "complete" ->
                  IF StatisticsThrows(m.data)
                  THEN \* get().setResults(data) throws: the handler stops there
                       /\ workers' = consumed
                       /\ UNCHANGED <<isRunning, progress, currentIteration, results,
                                      worker, ended>>
                  ELSE /\ isRunning' = FALSE
                       /\ progress' = Num(100)
                       /\ currentIteration' = workers[w].params.iterations
                       /\ results' = ResultsOf(m.data)
                       /\ workers' = [consumed EXCEPT ![w] = Terminate(@)]
                       /\ ended' = (IF w = created THEN TRUE ELSE ended)
                       /\ UNCHANGED worker
             [] m.type = "error" ->
                  /\ isRunning' = FALSE
                  /\ worker' = 0
                  /\ workers' = [consumed EXCEPT ![w] = Terminate(@)]
                  /\ ended' = (IF w = created THEN TRUE ELSE ended)
                  /\ UNCHANGED <<progress, currentIteration, results>>
    /\ UNCHANGED <<totalIterations, created, controls, selection, cancelled, iterVars, libVars>>

Init ==
    /\ isRunning = FALSE
    /\ progress = Num(0)
    /\ currentIteration = 0
    /\ totalIterations = 0
    /\ results = NULL
    /\ worker = 0
    /\ workers = [w \in WorkerIds |-> NoWorker]
    /\ created = 0
    /\ controls = 0
    /\ selection \in ParamChoices
    /\ cancelled = FALSE
    /\ ended = FALSE
    /\ itParams = NULL
    /\ itOutcome = NULL
    /\ itSamples = <<>>
    /\ itDone = 0
    /\ itDraws = <<>>
    /\ smCall = NULL
    /\ smResult = NULL
    /\ LibIdle

Next ==
    \/ startSimulation(selection)
    \/ pauseSimulation
    \/ resumeSimulation
    \/ resetSimulation
    \/ \E w \in WorkerIds : OnMessage(w)
    \/ \E w \in WorkerIds : WorkerOnMessage(w)
    \/ \E w \in WorkerIds : WorkerTimer(w)

Spec == Init /\ [][Next]_vars

\* A session with a single run: startSimulation is called once, every other
\* store operation and every worker step stays available.
NextRun ==
    \/ created = 0 /\ startSimulation(selection)
    \/ pauseSimulation
    \/ resumeSimulation
    \/ resetSimulation
    \/ \E w \in WorkerIds : OnMessage(w)
    \/ \E w \in WorkerIds : WorkerOnMessage(w)
    \/ \E w \in WorkerIds : WorkerTimer(w)

SpecRun == Init /\ [][NextRun]_vars


(***************************************************************************)
(* Helpers for the properties                                              *)
(***************************************************************************)
\* the parameters section 3 of the data model allows
ValidParams(p) == p.iterations >= 1 /\ p.baseRate > 0

Started(w) == workers[w].pc # "none" /\ workers[w].pc # "new"

ProgressEvents(w) == SelectSeq(workers[w].posted, LAMBDA m : m.type = "progress")
TerminalEvents(w) == SelectSeq(workers[w].posted, LAMBDA m : m.type # "progress")

\* batches whose loop ran to its end in worker w
BatchesCompleted(w) ==
    LET r == workers[w]
    IN  CASE r.pc = "timer"    -> r.batchIndex
          [] r.pc = "resolved" -> r.batchIndex + 1
          [] r.pc = "crashed"  -> r.batchIndex
          [] OTHER             -> 0

(***************************************************************************)
(* C1: a run with iterations = N >= 1 that completes resolves with exactly *)
(* N outcomes, and the outcome at position k carries iteration index k     *)
(* (0-based), for N below the batch size and for N that is no multiple of  *)
(* it; the 'complete' message carries that same collection.                *)
(***************************************************************************)
C1_OutcomesIndexed ==
    \A w \in WorkerIds :
        (workers[w].pc = "resolved" /\ workers[w].params.iterations >= 1)
        => /\ Len(workers[w].results) = workers[w].params.iterations
           /\ \A k \in 1..Len(workers[w].results) : workers[w].results[k] = k - 1
           /\ \A i \in 1..Len(workers[w].posted) :
                 workers[w].posted[i].type = "complete"
                 => workers[w].posted[i].data = workers[w].results

\* a run of LargestRun iterations (several batches, the last one partial) resolved
C1_Witness ==
    \E w \in WorkerIds :
        /\ workers[w].pc = "resolved"
        /\ workers[w].params.iterations = LargestRun
        /\ Len(workers[w].results) = LargestRun

(***************************************************************************)
(* C2: once a run was cancelled mid-run (resetSimulation after its first   *)
(* batch and before its last), the store stays in the cancelled state: it  *)
(* never shows Completed, and no progress event is applied to it, until    *)
(* the next startSimulation.                                               *)
(***************************************************************************)
C2_CancelIsFinal ==
    cancelled => /\ ~isComplete
                 /\ ~isRunning
                 /\ EqNum(progress, 0)
                 /\ currentIteration = 0
                 /\ results = NULL

(***************************************************************************)
(* C3: an exception thrown by the Compositor in any batch is reported by a *)
(* terminal 'error' event; no run ends with neither 'complete' nor 'error'.*)
(***************************************************************************)
C3_ThrowIsReported ==
    \A w \in WorkerIds :
        workers[w].pc \in {"rejected", "crashed"}
        => /\ Len(TerminalEvents(w)) = 1
           /\ TerminalEvents(w)[1].type = "error"

(***************************************************************************)
(* C4: after the worker has received the pause message, at most the batch  *)
(* already dispatched is processed; no second batch runs, so               *)
(* completedIterations does not advance beyond that batch, until a resume  *)
(* message is received.                                                    *)
(***************************************************************************)
C4_PauseStopsBatches ==
    \A w \in WorkerIds : workers[w].sincePause <= 1

(***************************************************************************)
(* C5: after the latest run's 'complete' or 'error' event was handled,     *)
(* isRunning becomes true again only through startSimulation.              *)
(***************************************************************************)
C5_TerminalAbsorbing ==
    [][(ValidParams(selection) /\ ended /\ ~isRunning /\ isRunning')
          => created' # created]_vars

(***************************************************************************)
(* C6: an event of an earlier run, handled after a later run was started,  *)
(* changes none of progress, currentIteration, isRunning, results.         *)
(***************************************************************************)
C6_RunsIndependent ==
    [][\A w \in WorkerIds :
          (ValidParams(selection) /\ w < created /\ OnMessage(w))
          => UNCHANGED <<isRunning, progress, currentIteration, results>>]_vars

(***************************************************************************)
(* C7: for a run with iterations >= 1: one progress event per completed    *)
(* batch (after the initial one), each carrying the running count and      *)
(* progress = completedIterations / iterations * 100; successive counts    *)
(* strictly increase by at most the batch size; every batch after the      *)
(* first ran in its own setTimeout task; the progress event right before   *)
(* 'complete' reports completedIterations = iterations and 100.            *)
(***************************************************************************)
C7_BatchProgress ==
    \A w \in WorkerIds :
        (Started(w) /\ workers[w].params.iterations >= 1)
        => LET P == ProgressEvents(w)
               all == workers[w].posted
               n == workers[w].params.iterations
           IN  /\ Len(P) = 1 + BatchesCompleted(w)
               /\ \A i \in 1..Len(P) :
                     P[i].progress.num * n
                         = P[i].completedIterations * 100 * P[i].progress.den
               /\ \A i \in 1..(Len(P) - 1) :
                     /\ P[i].completedIterations < P[i + 1].completedIterations
                     /\ P[i + 1].completedIterations - P[i].completedIterations
                            <= batchSize
               /\ workers[w].pc \in {"timer", "resolved"}
                     => /\ P[Len(P)].completedIterations = Len(workers[w].results)
                        /\ workers[w].timerYields = BatchesCompleted(w) - 1
               /\ \A i \in 1..Len(all) :
                     all[i].type = "complete"
                     => /\ i > 1
                        /\ all[i - 1].type = "progress"
                        /\ all[i - 1].completedIterations = n
                        /\ EqNum(all[i - 1].progress, 100)

\* a run of several batches has posted all its progress events and 'complete'
C7_Witness ==
    \E w \in WorkerIds :
        /\ workers[w].pc = "resolved"
        /\ workers[w].params.iterations = LargestRun
        /\ Len(ProgressEvents(w)) = MaxBatches + 1
        /\ workers[w].timerYields = MaxBatches - 1

(***************************************************************************)
(* C8: a start request whose iteration count or base rate is not positive  *)
(* is rejected: an 'error' is posted, no batch is processed and no         *)
(* 'progress' or 'complete' event is posted for it.                        *)
(***************************************************************************)
C8_InvalidRejected ==
    \A w \in WorkerIds :
        (Started(w) /\ (workers[w].params.iterations <= 0
                        \/ workers[w].params.baseRate <= 0))
        => /\ \A i \in 1..Len(workers[w].posted) :
                 workers[w].posted[i].type = "error"
           /\ Len(workers[w].posted) = 1
           /\ workers[w].results = <<>>

(***************************************************************************)
(* Real numbers of the compositor: fixed point, in thousandths.            *)
(***************************************************************************)
SCALE == 1000

Mul(a, b) == (a * b) \div SCALE
Div(a, b) == (a * SCALE) \div b

\* e^-k in millionths for k = 0..8, and e^k in thousandths for k = 1..4
ExpNegMicro == <<1000000, 367879, 135335, 49787, 18316, 6738, 2479, 912, 335>>
ExpPosMilli == <<2718, 7389, 20086, 54598>>

\* Math.exp(x): e^k from the tables for the nearest integer k, times the
\* series for the remainder r in [-0.5, 0.5)
Exp(x) ==
    LET k0 == (x + 500) \div SCALE
        k  == Max(-8, Min(4, k0))
        r  == x - k * SCALE
        series == SCALE + Mul(r, SCALE + Mul(r, 500 + Mul(r, 167 + Mul(r, 42))))
    IN  IF k <= 0
        THEN (ExpNegMicro[1 - k] * series + 500000) \div (SCALE * SCALE)
        ELSE (ExpPosMilli[k] * series + 500) \div SCALE

\* Math.log(y) for y > 0: the largest x with Exp(x) <= y, by bisection
RECURSIVE LnSearch(_, _, _)
LnSearch(y, lo, hi) ==
    IF hi - lo <= 1 THEN lo
    ELSE LET mid == (lo + hi) \div 2
         IN  IF Exp(mid) <= y THEN LnSearch(y, mid, hi) ELSE LnSearch(y, lo, mid)

Ln(y) == LnSearch(y, -8500, 4500)

\* Math.sqrt(a) for a >= 0: the integer square root of a * SCALE
RECURSIVE SqrtSearch(_, _, _)
SqrtSearch(n, lo, hi) ==
    IF hi - lo <= 1 THEN lo
    ELSE LET mid == (lo + hi) \div 2
         IN  IF mid * mid <= n THEN SqrtSearch(n, mid, hi) ELSE SqrtSearch(n, lo, mid)

Sqrt(a) == SqrtSearch(a * SCALE, 0, 46000)


(***************************************************************************)
(* Variate sampler.  A draw d stands for the random numbers one sampler    *)
(* call consumes: d.z is the Box-Muller value of normalRandom for the      *)
(* Math.random() values the call reads, d.u the first of those values,     *)
(* which is the one triangularRandom and exponentialRandom read.           *)
(***************************************************************************)
\* the z of normalRandom for a stream of Math.random() values: u is the
\* first value that is not 0, v the next value after it that is not 0, and
\* z = sqrt(-2 ln u) * cos(2 pi v)
BoxMuller(stream) ==
    LET RECURSIVE NonZeroFrom(_)
        NonZeroFrom(i) == IF stream[i] # 0 THEN i ELSE NonZeroFrom(i + 1)
        u == stream[NonZeroFrom(1)]
        v == stream[NonZeroFrom(NonZeroFrom(1) + 1)]
        \* the angle of t thousandths of a turn, and the series of cos and
        \* sin on [-pi/4, pi/4]
        Angle(t) == (6283 * t) \div SCALE
        CosSeries(x) ==
            LET x2 == Mul(x, x) IN SCALE - Mul(x2, 500 - Mul(x2, 42 - Mul(x2, 1)))
        SinSeries(x) ==
            LET x2 == Mul(x, x) IN Mul(x, SCALE - Mul(x2, 167 - Mul(x2, 8)))
        t == IF v > 500 THEN SCALE - v ELSE v
        cos2PiV == IF t <= 125 THEN CosSeries(Angle(t))
                   ELSE IF t <= 375 THEN SinSeries(Angle(250 - t))
                   ELSE -CosSeries(Angle(500 - t))
    IN  Mul(Sqrt(Mul(-2000, Ln(u))), cos2PiV)

\* three streams of Math.random() values, two of which start with values
\* the loops of normalRandom skip
DrawChoices ==
    LET streams == { <<0, 368, 0, 500>>, <<500, 250>>, <<135, 1>> }
    IN  { [z |-> BoxMuller(stream), u |-> stream[1]] : stream \in streams }

\* mutant: a spread of 0 is taken for a missing one and replaced by 1
normalRandomDefaultSpread(mean, stdDev, d) ==
    Mul(d.z, IF stdDev = 0 THEN SCALE ELSE stdDev) + mean

\* return z * stdDev + mean
normalRandom(mean, stdDev, d) == Mul(d.z, stdDev) + mean

\* Math.exp(mu + sigma * normalRandom(0, 1))
lognormalRandom(mu, sigma, d) == Exp(mu + Mul(sigma, normalRandom(0, SCALE, d)))

\* u < f with f = (mode - min) / (max - min); a zero divisor makes f
\* +Infinity, -Infinity or NaN
ULessF(u, min, mode, max) ==
    CASE max - min > 0 -> u * (max - min) < (mode - min) * SCALE
      [] max - min < 0 -> u * (max - min) > (mode - min) * SCALE
      [] OTHER         -> mode - min > 0

triangularRandom(min, mode, max, d) ==
    IF ULessF(d.u, min, mode, max)
    THEN min + Sqrt(Mul(Mul(d.u, max - min), mode - min))
    ELSE max - Sqrt(Mul(Mul(SCALE - d.u, max - min), max - mode))

\* -Math.log(1 - Math.random()) / lambda
exponentialRandom(lambda, d) == Div(-Ln(SCALE - d.u), lambda)

\* parameters.key || fallback : a missing key, and 0, are falsy
OrElse(parameters, key, fallback) ==
    IF key \in DOMAIN parameters /\ parameters[key] # 0
    THEN parameters[key]
    ELSE fallback

(***************************************************************************)
(* Outcome compositor                                                      *)
(***************************************************************************)
\* mutant: the enabled flag is ignored and every factor is sampled
simulateRateFactorIgnoringEnabled(factor, d) ==
    CASE factor.distribution = "normal" ->
            normalRandom(factor.meanMultiplier,
                         OrElse(factor.parameters, "stdDev", 20), d)
      [] factor.distribution = "lognormal" ->
            lognormalRandom(Ln(factor.meanMultiplier),
                            OrElse(factor.parameters, "sigma", 50), d)
      [] factor.distribution = "triangle" ->
            triangularRandom(
                OrElse(factor.parameters, "min", Mul(factor.meanMultiplier, 900)),
                factor.meanMultiplier,
                OrElse(factor.parameters, "max", Mul(factor.meanMultiplier, 1100)),
                d)
      [] OTHER -> factor.meanMultiplier

simulateRateFactor(factor, d) ==
    IF ~factor.enabled THEN SCALE
    ELSE CASE factor.distribution = "normal" ->
                normalRandom(factor.meanMultiplier,
                             OrElse(factor.parameters, "stdDev", 20), d)
           [] factor.distribution = "lognormal" ->
                lognormalRandom(Ln(factor.meanMultiplier),
                                OrElse(factor.parameters, "sigma", 50), d)
           [] factor.distribution = "triangle" ->
                triangularRandom(
                    OrElse(factor.parameters, "min", Mul(factor.meanMultiplier, 900)),
                    factor.meanMultiplier,
                    OrElse(factor.parameters, "max", Mul(factor.meanMultiplier, 1100)),
                    d)
           [] factor.distribution = "exponential" ->
                exponentialRandom(OrElse(factor.parameters, "lambda", SCALE), d)
           [] OTHER -> factor.meanMultiplier

simulateTransitSegment(segment, d) ==
    CASE segment.distribution = "normal" ->
            Max(100, normalRandom(
                         OrElse(segment.parameters, "mean", segment.baselineDays),
                         OrElse(segment.parameters, "stdDev",
                                Mul(segment.baselineDays, 100)),
                         d))
      [] segment.distribution = "lognormal" ->
            lognormalRandom(OrElse(segment.parameters, "mu", Ln(segment.baselineDays)),
                            OrElse(segment.parameters, "sigma", 200), d)
      [] OTHER ->
            normalRandom(segment.baselineDays, Mul(segment.baselineDays, 100), d)

\* for (const factor of factors) finalRate *= simulateRateFactor(factor)
RECURSIVE RateAfter(_, _, _, _)
RateAfter(rate, factors, draws, i) ==
    IF i > Len(factors) THEN rate
    ELSE RateAfter(Mul(rate, simulateRateFactor(factors[i], draws[i])),
                   factors, draws, i + 1)

\* the samples simulateTransitSegment returns for the segments, in order
SegmentSamples(segments, draws) ==
    [i \in 1..Len(segments) |-> simulateTransitSegment(segments[i], draws[i])]

RECURSIVE SumSeq(_, _)
SumSeq(q, i) == IF i > Len(q) THEN 0 ELSE q[i] + SumSeq(q, i + 1)

\* segments.reduce((sum, seg) => sum + seg.baselineDays, 0)
ExpectedDays(segments) ==
    SumSeq([i \in 1..Len(segments) |-> segments[i].baselineDays], 1)

\* mutant: the delay is not clamped at zero, so an early arrival earns a
\* negative delay cost
runSingleIterationSignedDelay(params, fdraws, sdraws) ==
    LET finalRate == RateAfter(params.baseRate, params.factors, fdraws, 1)
        totalTransitDays == SumSeq(SegmentSamples(params.segments, sdraws), 1)
        delayDays == totalTransitDays - ExpectedDays(params.segments)
        delayCost == Mul(delayDays, Mul(finalRate, 1))
    IN  [iteration |-> 0,
         rate |-> finalRate,
         transitDays |-> totalTransitDays,
         arrivalDate |-> totalTransitDays,
         delayCost |-> delayCost,
         totalLandedCost |-> finalRate + delayCost]

\* runSingleIteration(params); fdraws and sdraws are the draws of the factor
\* and of the segment sampler calls
runSingleIteration(params, fdraws, sdraws) ==
    LET finalRate == RateAfter(params.baseRate, params.factors, fdraws, 1)
        totalTransitDays == SumSeq(SegmentSamples(params.segments, sdraws), 1)
        expectedDays == ExpectedDays(params.segments)
        delayDays == Max(0, totalTransitDays - expectedDays)
        delayCostPerDay == Mul(finalRate, 1)
        delayCost == Mul(delayDays, delayCostPerDay)
    IN  [iteration |-> 0,
         rate |-> finalRate,
         transitDays |-> totalTransitDays,
         arrivalDate |-> totalTransitDays,   \* days after the start date
         delayCost |-> delayCost,
         totalLandedCost |-> finalRate + delayCost]

(***************************************************************************)
(* SpecIter: the compositor run repeatedly on one lane                     *)
(***************************************************************************)
\* spec scenario: one Normal factor and one Normal segment, both stdDev 0
LaneZeroSpread ==
    [baseRate |-> 1000 * SCALE,
     factors  |-> << [enabled |-> TRUE, distribution |-> "normal",
                      meanMultiplier |-> 1000, parameters |-> [stdDev |-> 0]] >>,
     segments |-> << [baselineDays |-> 10000, distribution |-> "normal",
                      parameters |-> [stdDev |-> 0]] >>]

\* the lane seeded by MemStorage.initializeDefaultData (base rate rounded to
\* 1000; the lognormal segment with the sigma the segment editor offers)
LaneSeeded ==
    [baseRate |-> 1000 * SCALE,
     factors  |-> << [enabled |-> TRUE, distribution |-> "normal",
                      meanMultiplier |-> 1050, parameters |-> [stdDev |-> 20]],
                     [enabled |-> TRUE, distribution |-> "triangle",
                      meanMultiplier |-> 1120,
                      parameters |-> [min |-> 1080, mode |-> 1120, max |-> 1180]] >>,
     segments |-> << [baselineDays |-> 2000, distribution |-> "normal",
                      parameters |-> [mean |-> 2000, stdDev |-> 300]],
                     [baselineDays |-> 14000, distribution |-> "lognormal",
                      parameters |-> [sigma |-> 200]],
                     [baselineDays |-> 1500, distribution |-> "exponential",
                      parameters |-> [lambda |-> 670]] >>]

\* segments at the smallest baseline the segment editor allows (0.1 days),
\* one per distribution the editor offers; one disabled factor
LaneShort ==
    [baseRate |-> 1000 * SCALE,
     factors  |-> << [enabled |-> FALSE, distribution |-> "lognormal",
                      meanMultiplier |-> 1200, parameters |-> [sigma |-> 50]] >>,
     segments |-> << [baselineDays |-> 100, distribution |-> "normal",
                      parameters |-> [stdDev |-> 300]],
                     [baselineDays |-> 100, distribution |-> "lognormal",
                      parameters |-> [sigma |-> 200]],
                     [baselineDays |-> 100, distribution |-> "exponential",
                      parameters |-> [lambda |-> 670]] >>]

\* a lane whose second factor is switched off in the factor editor
LaneMixed ==
    [baseRate |-> 1000 * SCALE,
     factors  |-> << [enabled |-> TRUE, distribution |-> "normal",
                      meanMultiplier |-> 1050, parameters |-> [stdDev |-> 20]],
                     [enabled |-> FALSE, distribution |-> "triangle",
                      meanMultiplier |-> 1120,
                      parameters |-> [min |-> 1080, mode |-> 1120, max |-> 1180]] >>,
     segments |-> << [baselineDays |-> 2000, distribution |-> "normal",
                      parameters |-> [mean |-> 2000, stdDev |-> 300]] >>]

\* a lane with no rate factors at all
LaneNoFactors ==
    [baseRate |-> 1000 * SCALE,
     factors  |-> << >>,
     segments |-> << [baselineDays |-> 2000, distribution |-> "normal",
                      parameters |-> [mean |-> 2000, stdDev |-> 300]] >>]

LaneChoices == {LaneZeroSpread, LaneSeeded, LaneShort, LaneMixed, LaneNoFactors}

DrawsFor(q) == [1..Len(q) -> DrawChoices]

\* one more iteration of the run: runSingleIteration(params)
RunIteration ==
    /\ itParams # NULL
    /\ itDone < MaxSamples
    /\ \E fdraws \in DrawsFor(itParams.factors), sdraws \in DrawsFor(itParams.segments) :
          /\ itOutcome' = runSingleIteration(itParams, fdraws, sdraws)
          /\ itSamples' = SegmentSamples(itParams.segments, sdraws)
          /\ itDraws' = fdraws
    /\ itDone' = itDone + 1
    /\ UNCHANGED <<storeVars, workers, created, controls, selection, cancelled, ended,
                   itParams, smCall, smResult, libVars>>

InitIter ==
    /\ isRunning = FALSE
    /\ progress = Num(0)
    /\ currentIteration = 0
    /\ totalIterations = 0
    /\ results = NULL
    /\ worker = 0
    /\ workers = [w \in WorkerIds |-> NoWorker]
    /\ created = 0
    /\ controls = 0
    /\ selection = NoParams
    /\ cancelled = FALSE
    /\ ended = FALSE
    /\ itParams \in LaneChoices
    /\ itOutcome = NULL
    /\ itSamples = <<>>
    /\ itDone = 0
    /\ itDraws = <<>>
    /\ smCall = NULL
    /\ smResult = NULL
    /\ LibIdle

NextIter == RunIteration

SpecIter == InitIter /\ [][NextIter]_vars

\* every enabled factor and every segment is Normal with parameters.stdDev = 0
ZeroSpread(params) ==
    /\ \A i \in 1..Len(params.factors) :
          params.factors[i].enabled
          => /\ params.factors[i].distribution = "normal"
             /\ "stdDev" \in DOMAIN params.factors[i].parameters
             /\ params.factors[i].parameters.stdDev = 0
    /\ \A i \in 1..Len(params.segments) :
          /\ params.segments[i].distribution = "normal"
          /\ "stdDev" \in DOMAIN params.segments[i].parameters
          /\ params.segments[i].parameters.stdDev = 0

\* baseRate multiplied by the meanMultipliers of the enabled factors
RECURSIVE MeanRate(_, _, _)
MeanRate(rate, factors, i) ==
    IF i > Len(factors) THEN rate
    ELSE MeanRate(IF factors[i].enabled THEN Mul(rate, factors[i].meanMultiplier)
                  ELSE rate, factors, i + 1)

(***************************************************************************)
(* C9: on a lane whose enabled factors and segments are all Normal with    *)
(* stdDev = 0, every outcome is the deterministic value: rate = baseRate   *)
(* times the meanMultipliers, transitDays = sum of baselineDays,           *)
(* delayCost = 0, totalLandedCost = rate.                                  *)
(***************************************************************************)
C9_ZeroSpreadDeterministic ==
    (itOutcome # NULL /\ ZeroSpread(itParams))
    => /\ itOutcome.rate = MeanRate(itParams.baseRate, itParams.factors, 1)
       /\ itOutcome.transitDays = ExpectedDays(itParams.segments)
       /\ itOutcome.delayCost = 0
       /\ itOutcome.totalLandedCost = itOutcome.rate

(***************************************************************************)
(* C10: every segment sample summed into transitDays is at least 0.1 days, *)
(* whatever the segment's distribution tag, so transitDays is at least 0.1 *)
(* times the number of segments.                                           *)
(***************************************************************************)
C10_SegmentClamped ==
    itOutcome # NULL
    => /\ \A i \in 1..Len(itSamples) : itSamples[i] >= 100
       /\ itOutcome.transitDays >= 100 * Len(itParams.segments)

(***************************************************************************)
(* C25: for each 'start' message a worker posts its messages in a fixed    *)
(* order: first progress with completedIterations 0, then one progress per *)
(* batch, then exactly one terminal message, 'complete' with the full      *)
(* ordered outcome collection or 'error'.  At most one terminal message is *)
(* posted, no progress follows it, and a run that has stopped scheduling   *)
(* batches has posted its terminal message.                                *)
(***************************************************************************)
C25_MessageOrder ==
    \A w \in WorkerIds :
        Started(w)
        => LET all == workers[w].posted
           IN  /\ Len(all) >= 1
               /\ all[1].type = "progress"
               /\ all[1].completedIterations = 0
               /\ Len(ProgressEvents(w)) = 1 + BatchesCompleted(w)
               /\ Len(TerminalEvents(w)) <= 1
               /\ \A i \in 1..Len(all) : all[i].type # "progress" => i = Len(all)
               /\ \A i \in 1..Len(all) :
                     all[i].type = "complete"
                     => /\ all[i].data = workers[w].results
                        /\ Len(all[i].data) = Max(0, workers[w].params.iterations)
                        /\ \A k \in 1..Len(all[i].data) : all[i].data[k] = k - 1
               /\ workers[w].pc \in {"resolved", "rejected", "crashed"}
                     => Len(TerminalEvents(w)) = 1

(***************************************************************************)
(* C26: whenever the store handles a 'complete' message, the run ends:     *)
(* after the handler isRunning is false, progress is 100, currentIteration *)
(* is the requested iteration count, and results hold the delivered        *)
(* outcomes with their statistics; for every collection a worker can       *)
(* deliver, the empty one of an iteration count of 0 or less included.     *)
(***************************************************************************)
C26_CompleteEndsRun ==
    [][\A w \in WorkerIds :
          (OnMessage(w) /\ Head(workers[w].outbox).type = "complete")
          => /\ ~isRunning'
             /\ EqNum(progress', 100)
             /\ currentIteration' = workers[w].params.iterations
             /\ results' # NULL
             /\ results'.hasStats
             /\ results'.rateDistribution = Head(workers[w].outbox).data]_vars

(***************************************************************************)
(* C27: in every reachable state of the store, a run that                  *)
(* useSimulationStatus reports as complete (progress = 100 and isRunning   *)
(* false) has its results: results is not null and carries rateStats and   *)
(* transitStats.                                                           *)
(***************************************************************************)
C27_CompleteHasResults ==
    isComplete => (results # NULL /\ results.hasStats)

(***************************************************************************)
(* SpecSampler: the samplers applied directly to chosen parameters         *)
(***************************************************************************)
\* the store, the workers and the compositor at rest
SimulationIdle ==
    /\ isRunning = FALSE
    /\ progress = Num(0)
    /\ currentIteration = 0
    /\ totalIterations = 0
    /\ results = NULL
    /\ worker = 0
    /\ workers = [w \in WorkerIds |-> NoWorker]
    /\ created = 0
    /\ controls = 0
    /\ selection = NoParams
    /\ cancelled = FALSE
    /\ ended = FALSE
    /\ itParams = NULL
    /\ itOutcome = NULL
    /\ itSamples = <<>>
    /\ itDone = 0
    /\ itDraws = <<>>
    /\ smCall = NULL
    /\ smResult = NULL

CallNormalRandom ==
    /\ \E mean \in {0, 1000, 1050, 2000, 14000}, stdDev \in {0, 20, 300},
          d \in DrawChoices :
          /\ smCall' = [fn |-> "normalRandom", args |-> <<mean, stdDev>>]
          /\ smResult' = normalRandom(mean, stdDev, d)
    /\ UNCHANGED <<storeVars, workers, created, controls, selection, cancelled, ended,
                   itParams, itOutcome, itSamples, itDone, itDraws, libVars>>

CallLognormalRandom ==
    /\ \E mu \in {-1000, 0, 182, 1000, 2639}, sigma \in {0, 50, 200}, d \in DrawChoices :
          /\ smCall' = [fn |-> "lognormalRandom", args |-> <<mu, sigma>>]
          /\ smResult' = lognormalRandom(mu, sigma, d)
    /\ UNCHANGED <<storeVars, workers, created, controls, selection, cancelled, ended,
                   itParams, itOutcome, itSamples, itDone, itDraws, libVars>>

CallTriangularRandom ==
    /\ \E min \in {900, 1000, 1080, 1200}, mode \in {900, 1000, 1120, 1200},
          max \in {900, 1000, 1180, 1200}, d \in DrawChoices :
          /\ min <= mode /\ mode <= max
          /\ smCall' = [fn |-> "triangularRandom", args |-> <<min, mode, max>>]
          /\ smResult' = triangularRandom(min, mode, max, d)
    /\ UNCHANGED <<storeVars, workers, created, controls, selection, cancelled, ended,
                   itParams, itOutcome, itSamples, itDone, itDraws, libVars>>

InitSampler == SimulationIdle /\ LibIdle

NextSampler == CallNormalRandom \/ CallLognormalRandom \/ CallTriangularRandom

SpecSampler == InitSampler /\ [][NextSampler]_vars

(***************************************************************************)
(* C23: the degenerate distributions are point masses: normalRandom(mean,  *)
(* 0) returns mean and lognormalRandom(mu, 0) returns exp(mu) whatever the *)
(* underlying uniform draws are, and triangularRandom(c, c, c) returns c.  *)
(***************************************************************************)
C23_DegenerateIsPointMass ==
    smCall # NULL
    => /\ (smCall.fn = "normalRandom" /\ smCall.args[2] = 0)
          => smResult = smCall.args[1]
       /\ (smCall.fn = "lognormalRandom" /\ smCall.args[2] = 0)
          => smResult = Exp(smCall.args[1])
       /\ (smCall.fn = "triangularRandom" /\ smCall.args[1] = smCall.args[3])
          => smResult = smCall.args[2]

\* normalRandom(1.05, 0) returned 1.05
C23_Witness ==
    /\ smCall # NULL
    /\ smCall.fn = "normalRandom"
    /\ smCall.args = <<1050, 0>>
    /\ smResult = 1050

(***************************************************************************)
(* C21: a disabled factor contributes the multiplier 1.0 and is not        *)
(* sampled: the rate of an outcome is baseRate multiplied by the sampled   *)
(* multipliers of the enabled factors only, it does not depend on the      *)
(* draw at a disabled factor's position, and it is baseRate when every     *)
(* factor is disabled or the factor list is empty.                         *)
(***************************************************************************)
C21_DisabledFactorIsOne ==
    itOutcome # NULL
    => LET factors == itParams.factors
           RECURSIVE EnabledRate(_, _)
           EnabledRate(rate, i) ==
               IF i > Len(factors) THEN rate
               ELSE EnabledRate(IF factors[i].enabled
                                THEN Mul(rate, simulateRateFactor(factors[i], itDraws[i]))
                                ELSE rate, i + 1)
       IN  /\ itOutcome.rate = EnabledRate(itParams.baseRate, 1)
           /\ (\A i \in 1..Len(factors) : ~factors[i].enabled)
              => itOutcome.rate = itParams.baseRate
           /\ \A other \in DrawsFor(factors) :
                 (\A i \in 1..Len(factors) : factors[i].enabled => other[i] = itDraws[i])
                 => RateAfter(itParams.baseRate, factors, other, 1) = itOutcome.rate

\* an outcome of a lane with an enabled factor that moved the rate and a
\* disabled one after it
C21_Witness ==
    /\ itOutcome # NULL
    /\ \E i, j \in 1..Len(itParams.factors) :
          itParams.factors[i].enabled /\ ~itParams.factors[j].enabled
    /\ itOutcome.rate # itParams.baseRate

(***************************************************************************)
(* C22: delayCost = max(0, transitDays - sum of baselineDays) times        *)
(* (rate * 0.001) and totalLandedCost = rate + delayCost; so delayCost is  *)
(* 0 when transitDays is at most the baseline sum, and delayCost >= 0 and  *)
(* totalLandedCost >= rate whenever rate >= 0.                             *)
(***************************************************************************)
C22_DelayCost ==
    itOutcome # NULL
    => LET expectedDays == ExpectedDays(itParams.segments)
       IN  /\ itOutcome.delayCost =
                 Mul(Max(0, itOutcome.transitDays - expectedDays), Mul(itOutcome.rate, 1))
           /\ itOutcome.totalLandedCost = itOutcome.rate + itOutcome.delayCost
           /\ itOutcome.transitDays <= expectedDays => itOutcome.delayCost = 0
           /\ itOutcome.rate >= 0
              => itOutcome.delayCost >= 0 /\ itOutcome.totalLandedCost >= itOutcome.rate

\* an outcome that arrived late and was charged for the delay
C22_Witness ==
    /\ itOutcome # NULL
    /\ itOutcome.transitDays > ExpectedDays(itParams.segments)
    /\ itOutcome.rate > 0
    /\ itOutcome.delayCost > 0
    /\ itOutcome.totalLandedCost > itOutcome.rate

\* ---------------------------------------------------------------------------
\* Numbers of the statistics library: exact rationals [num, den] with
\* den >= 0; den = 0 is what a division by zero leaves in JavaScript
\* (NaN for 0/0, +Infinity or -Infinity for the sign of num).
\* ---------------------------------------------------------------------------
RECURSIVE GCD(_, _)
GCD(a, b) == IF b = 0 THEN a ELSE GCD(b, a % b)

Sign(n) == IF n > 0 THEN 1 ELSE IF n < 0 THEN -1 ELSE 0

\* n / d in lowest terms
R(n, d) ==
    IF d = 0 THEN [num |-> Sign(n), den |-> 0]
    ELSE LET g == GCD(Sign(n) * n, Sign(d) * d)
         IN  [num |-> Sign(d) * (n \div g), den |-> Sign(d) * (d \div g)]

IsNaN(a) == a.den = 0 /\ a.num = 0

RAdd(a, b) == R(a.num * b.den + b.num * a.den, a.den * b.den)
RSub(a, b) == R(a.num * b.den - b.num * a.den, a.den * b.den)
RMul(a, b) == R(a.num * b.num, a.den * b.den)
RDiv(a, b) == R(a.num * b.den, a.den * b.num)

\* the comparisons of JavaScript numbers: every comparison with NaN is false
REq(a, b) == ~IsNaN(a) /\ ~IsNaN(b) /\ a.num * b.den = b.num * a.den
RLt(a, b) == ~IsNaN(a) /\ ~IsNaN(b) /\ a.num * b.den < b.num * a.den
RLe(a, b) == ~IsNaN(a) /\ ~IsNaN(b) /\ a.num * b.den <= b.num * a.den
RGt(a, b) == RLt(b, a)
RGe(a, b) == RLe(b, a)

\* Math.floor of a finite number
RFloor(a) == a.num \div a.den

\* Math.abs
RAbs(a) == IF a.num < 0 THEN [num |-> -a.num, den |-> a.den] ELSE a

\* Math.min(a, b) and Math.max(a, b): NaN if either argument is NaN
RMin(a, b) == IF IsNaN(a) THEN a ELSE IF IsNaN(b) THEN b ELSE IF RLt(b, a) THEN b ELSE a
RMax(a, b) == IF IsNaN(a) THEN a ELSE IF IsNaN(b) THEN b ELSE IF RGt(b, a) THEN b ELSE a

\* a number in thousandths, rounded down
Milli(a) == (a.num \div a.den) * SCALE + ((a.num % a.den) * SCALE) \div a.den

\* Math.sqrt, to the thousandth; NaN and Infinity stay what they are
RSqrt(a) == IF a.den = 0 THEN a ELSE R(Sqrt(Milli(a)), SCALE)

\* ---------------------------------------------------------------------------
\* src/client/src/lib/statistics.ts
\* ---------------------------------------------------------------------------
Thrown == [threw |-> TRUE]

RECURSIVE InsertSorted(_, _)
InsertSorted(sorted, x) ==
    IF Len(sorted) = 0 THEN <<x>>
    ELSE IF x < sorted[Len(sorted)]
         THEN Append(InsertSorted(SubSeq(sorted, 1, Len(sorted) - 1), x), sorted[Len(sorted)])
         ELSE Append(sorted, x)

\* [...data].sort((a, b) => a - b): a sorted copy, the array itself untouched
RECURSIVE SortedCopy(_)
SortedCopy(data) ==
    IF Len(data) = 0 THEN <<>>
    ELSE InsertSorted(SortedCopy(SubSeq(data, 1, Len(data) - 1)), data[Len(data)])

\* mutant: data.sort((a, b) => a - b), which orders the caller's array
SortInPlace(data) == [data |-> SortedCopy(data), sorted |-> SortedCopy(data)]

\* const sorted = [...data].sort((a, b) => a - b): the two arrays the
\* statement leaves, sort having ordered the copy the spread made
SpreadSort(data) == [data |-> data, sorted |-> SortedCopy(data)]

RECURSIVE Sum(_, _)
Sum(f, n) == IF n = 0 THEN 0 ELSE f[n] + Sum(f, n - 1)

\* data.reduce((acc, val) => acc + val, 0)
SumOf(data) == Sum(data, Len(data))

\* a mutant: the lower bracketing order statistic, no interpolation
percentileLower(sortedData, p) ==
    IF Len(sortedData) = 0 THEN Num(0)
    ELSE Num(sortedData[(p * (Len(sortedData) - 1)) \div 100 + 1])

\* mutant: the two weights of the interpolation are exchanged
percentileSwappedWeights(sortedData, p) ==
    LET n      == Len(sortedData)
        index  == p * (n - 1)
        lower  == index \div 100
        weight == index % 100
    IN  IF n = 0 THEN Num(0)
        ELSE IF n = 1 THEN Num(sortedData[1])
        ELSE IF weight = 0 THEN Num(sortedData[lower + 1])
        ELSE R(sortedData[lower + 1] * weight + sortedData[lower + 2] * (100 - weight), 100)

\* percentile(sortedData, p) for 0 <= p <= 100, array indices from 0 as in
\* the code: index = (p / 100) * (n - 1), linear interpolation between
\* sortedData[floor(index)] and sortedData[ceil(index)]
percentile(sortedData, p) ==
    LET n      == Len(sortedData)
        index  == p * (n - 1)          \* in hundredths
        lower  == index \div 100
        weight == index % 100          \* in hundredths
    IN  IF n = 0 THEN Num(0)
        ELSE IF n = 1 THEN Num(sortedData[1])
        ELSE IF weight = 0 THEN Num(sortedData[lower + 1])
        ELSE R(sortedData[lower + 1] * (100 - weight) + sortedData[lower + 2] * weight, 100)

\* the number of elements of data equal to data[i]
Frequency(data, i) == Cardinality({j \in 1..Len(data) : data[j] = data[i]})

\* calculateMode(data): the first value (in insertion order of the Map) of
\* the highest frequency, null when no value appears more than once
calculateMode(data) ==
    LET maxFreq == Max(0, CHOOSE f \in {Frequency(data, i) : i \in 1..Len(data)} :
                             \A i \in 1..Len(data) : Frequency(data, i) <= f)
        first   == CHOOSE i \in 1..Len(data) :
                      /\ Frequency(data, i) = maxFreq
                      /\ \A j \in 1..(i - 1) : Frequency(data, j) < maxFreq
    IN  IF maxFreq > 1 THEN Num(data[first]) ELSE NULL

\* (val - mean) / stdDev in thousandths, for mean = sum / n
ZScoreMilli(val, sum, n, stdDev) == Div(((val * n - sum) * SCALE) \div n, Milli(stdDev))

\* calculateSkewness(data, mean, stdDev)
calculateSkewness(data, sum, stdDev) ==
    LET n    == Len(data)
        cube == [i \in 1..n |-> LET z == ZScoreMilli(data[i], sum, n, stdDev)
                                 IN  Mul(Mul(z, z), z)]
    IN  IF REq(stdDev, Num(0)) THEN Num(0)
        ELSE IF IsNaN(stdDev) THEN stdDev
        ELSE RMul(R(n, (n - 1) * (n - 2)), R(SumOf(cube), SCALE))

\* calculateKurtosis(data, mean, stdDev)
calculateKurtosis(data, sum, stdDev) ==
    LET n      == Len(data)
        fourth == [i \in 1..n |-> LET z  == ZScoreMilli(data[i], sum, n, stdDev)
                                       z2 == Mul(z, z)
                                   IN  Mul(z2, z2)]
        numerator   == RMul(Num(n * (n + 1)), R(SumOf(fourth), SCALE))
        denominator == Num((n - 1) * (n - 2) * (n - 3))
        adjustment  == R(3 * (n - 1) * (n - 1), (n - 2) * (n - 3))
    IN  IF REq(stdDev, Num(0)) THEN Num(0)
        ELSE IF IsNaN(stdDev) THEN stdDev
        ELSE RSub(RDiv(numerator, denominator), adjustment)

\* calculateStatistics(data)
calculateStatistics(data) ==
    IF StatisticsThrows(data) THEN Thrown
    ELSE LET sorted   == SpreadSort(data).sorted
             n        == Len(data)
             sum      == SumOf(data)
             mean     == R(sum, n)
             min      == sorted[1]
             max      == sorted[n]
             median   == percentile(sorted, 50)
             squares  == [i \in 1..n |-> (data[i] * n - sum) * (data[i] * n - sum)]
             variance == R(SumOf(squares), n * n * (n - 1))
             stdDev   == RSqrt(variance)
         IN  [threw    |-> FALSE,
              mean     |-> mean,
              median   |-> median,
              mode     |-> calculateMode(data),
              stdDev   |-> stdDev,
              variance |-> variance,
              min      |-> Num(min),
              max      |-> Num(max),
              range    |-> Num(max - min),
              p5       |-> percentile(sorted, 5),
              p10      |-> percentile(sorted, 10),
              p25      |-> percentile(sorted, 25),
              p50      |-> median,
              p75      |-> percentile(sorted, 75),
              p90      |-> percentile(sorted, 90),
              p95      |-> percentile(sorted, 95),
              skewness |-> calculateSkewness(data, sum, stdDev),
              kurtosis |-> calculateKurtosis(data, sum, stdDev),
              count    |-> n]

\* the default of generateHistogram's parameter bins
defaultBins == 30

\* an array index that is NaN (no value >= min gives a negative index)
NaNIndex == -1

\* Math.min(Math.floor((value - min) / binWidth), bins - 1), which is NaN
\* when binWidth is 0 and (value - min) / binWidth is 0 / 0
BinIndex(value, min, binWidth, bins) ==
    LET position == RDiv(Num(value - min), binWidth)
    IN  IF IsNaN(position) THEN NaNIndex ELSE Min(RFloor(position), bins - 1)

\* generateHistogram(data, bins): histogram[binIndex].count++ throws a
\* TypeError when binIndex is NaN, as histogram[NaN] is undefined
generateHistogram(data, bins) ==
    LET n        == Len(data)
        sorted   == SortedCopy(data)
        min      == sorted[1]
        max      == sorted[n]
        binWidth == R(max - min, bins)
        index    == [j \in 1..n |-> BinIndex(data[j], min, binWidth, bins)]
        count    == [i \in 0..(bins - 1) |-> Cardinality({j \in 1..n : index[j] = i})]
    IN  IF n = 0 THEN [threw |-> FALSE, histogram |-> <<>>]
        ELSE IF \E j \in 1..n : index[j] = NaNIndex THEN Thrown
        ELSE [threw |-> FALSE,
              histogram |->
                [k \in 1..bins |->
                   [binStart  |-> RAdd(Num(min), RMul(Num(k - 1), binWidth)),
                    binEnd    |-> RAdd(Num(min), RMul(Num(k), binWidth)),
                    count     |-> count[k - 1],
                    frequency |-> R(count[k - 1], n),
                    density   |-> RDiv(R(count[k - 1], n), binWidth)]]]

\* sorted.findIndex(v => v >= value): the index (from 0) of the first such
\* element, -1 when there is none
RECURSIVE FindIndexFrom(_, _, _)
FindIndexFrom(sorted, value, i) ==
    IF i > Len(sorted) THEN -1
    ELSE IF sorted[i] >= value THEN i - 1
    ELSE FindIndexFrom(sorted, value, i + 1)

\* a mutant: the comparison of the predicate reversed, v <= value
FindIndexAtMost(sorted, value) ==
    IF \E i \in 1..Len(sorted) : sorted[i] <= value
    THEN (CHOOSE i \in 1..Len(sorted) :
             /\ sorted[i] <= value
             /\ \A j \in 1..(i - 1) : sorted[j] > value) - 1
    ELSE -1

FindIndex(sorted, value) == FindIndexFrom(sorted, value, 1)

\* calculatePercentileRank(value, data)
calculatePercentileRank(value, data) ==
    LET sorted == SpreadSort(data).sorted
        n      == Len(sorted)
        index  == FindIndex(sorted, value)
    IN  IF n = 0 THEN Num(0)
        ELSE IF index = -1 THEN Num(100)
        ELSE R(index * 100, n)

\* getZScore(probability), the probability in thousandths
getZScore(probability) ==
    CASE probability = 975 -> 1960
      [] probability = 995 -> 2576
      [] probability = 900 -> 1280
      [] probability = 950 -> 1645
      [] OTHER -> 1960

\* a mutant: an empty array gives the interval [0, 0] instead of an error
calculateConfidenceIntervalOrZero(data, confidenceLevel) ==
    IF Len(data) = 0
    THEN [threw |-> FALSE, lower |-> Num(0), upper |-> Num(0), margin |-> Num(0)]
    ELSE LET stats  == calculateStatistics(data)
             margin == RMul(R(1960, SCALE), RDiv(stats.stdDev, RSqrt(Num(Len(data)))))
         IN  [threw |-> FALSE, lower |-> RSub(stats.mean, margin),
              upper |-> RAdd(stats.mean, margin), margin |-> margin]

\* calculateConfidenceInterval(data, confidenceLevel), the level in thousandths
calculateConfidenceInterval(data, confidenceLevel) ==
    LET stats         == calculateStatistics(data)
        alpha         == SCALE - confidenceLevel
        zScore        == R(getZScore(SCALE - alpha \div 2), SCALE)
        standardError == RDiv(stats.stdDev, RSqrt(Num(Len(data))))
        margin        == RMul(zScore, standardError)
    IN  IF stats.threw THEN Thrown
        ELSE [threw  |-> FALSE,
              lower  |-> RSub(stats.mean, margin),
              upper  |-> RAdd(stats.mean, margin),
              margin |-> margin]

\* data.filter(value => value < lowerBound || value > upperBound)
Outliers(data, lowerBound, upperBound) ==
    SelectSeq(data, LAMBDA value : RLt(Num(value), lowerBound) \/ RGt(Num(value), upperBound))

\* detectOutliers(data)
detectOutliers(data) ==
    LET stats      == calculateStatistics(data)
        iqr        == RSub(stats.p75, stats.p25)
        lowerBound == RSub(stats.p25, RMul(R(3, 2), iqr))
        upperBound == RAdd(stats.p75, RMul(R(3, 2), iqr))
    IN  IF stats.threw THEN Thrown
        ELSE [threw      |-> FALSE,
              outliers   |-> Outliers(data, lowerBound, upperBound),
              lowerBound |-> lowerBound,
              upperBound |-> upperBound,
              method     |-> "IQR"]

\* ---------------------------------------------------------------------------
\* src/client/src/components/decision/quote-analyzer.tsx, calculatePercentile
\* ---------------------------------------------------------------------------
\* a mutant: the rank counts the rates up to and including the quote
calculatePercentileInclusive(value, data) ==
    LET sorted == SortedCopy(data)
        above  == {i \in 1..Len(sorted) : sorted[i] > value}
    IN  IF above = {} THEN Num(100)
        ELSE R((Len(sorted) - Cardinality(above)) * 100, Len(sorted))

\* calculatePercentile(value, data)
calculatePercentile(value, data) ==
    LET sorted == SortedCopy(data)
        index  == FindIndex(sorted, value)
    IN  IF index = -1 THEN Num(100) ELSE R(index * 100, Len(sorted))

\* ---------------------------------------------------------------------------
\* SpecStats: the functions of the statistics library, and the analyzer's
\* calculatePercentile, applied to an array and a value
\* ---------------------------------------------------------------------------
MaxLen == 3     \* longest array passed to the library

SampleValues == {1, 2, 4}
ValueChoices == {1, 2, 3, 5}

RECURSIVE ArraysUpTo(_)
ArraysUpTo(n) == IF n = 0 THEN {<<>>} ELSE ArraysUpTo(n - 1) \cup [1..n -> SampleValues]

\* a call leaves everything but its result as it was: the library sorts
\* copies, the caller's array is untouched
CallFrame ==
    /\ UNCHANGED stValue
    /\ UNCHANGED <<storeVars, workers, created, controls, selection, cancelled, ended,
                   iterVars, quoteVars, altVars>>

\* in each call, stData' is the caller's array as the call leaves it
CallCalculateStatistics ==
    /\ stCall' = "calculateStatistics"
    /\ stResult' = calculateStatistics(stData)
    /\ stData' = IF StatisticsThrows(stData) THEN stData ELSE SpreadSort(stData).data
    /\ CallFrame

\* calculateConfidenceInterval and detectOutliers hand data to
\* calculateStatistics, and read it
CallConfidenceInterval ==
    /\ stCall' = "calculateConfidenceInterval"
    /\ stResult' = calculateConfidenceInterval(stData, 950)
    /\ stData' = IF StatisticsThrows(stData) THEN stData ELSE SpreadSort(stData).data
    /\ CallFrame

CallDetectOutliers ==
    /\ stCall' = "detectOutliers"
    /\ stResult' = detectOutliers(stData)
    /\ stData' = IF StatisticsThrows(stData) THEN stData ELSE SpreadSort(stData).data
    /\ CallFrame

\* Math.min(...data), Math.max(...data) and data.forEach only read data
CallGenerateHistogram ==
    /\ stCall' = "generateHistogram"
    /\ stResult' = generateHistogram(stData, defaultBins)
    /\ stData' = stData
    /\ CallFrame

CallPercentileRank ==
    /\ stCall' = "calculatePercentileRank"
    /\ stResult' = [threw |-> FALSE, value |-> calculatePercentileRank(stValue, stData)]
    /\ stData' = SpreadSort(stData).data
    /\ CallFrame

\* the analyzer passes its 1000 mock results, never an empty array; the
\* array sorted is the one results.map(r => r.rate) made
CallCalculatePercentile ==
    /\ Len(stData) > 0
    /\ stCall' = "calculatePercentile"
    /\ stResult' = [threw |-> FALSE, value |-> calculatePercentile(stValue, stData)]
    /\ stData' = stData
    /\ CallFrame

InitStats ==
    /\ SimulationIdle
    /\ stData \in ArraysUpTo(MaxLen)
    /\ stValue \in ValueChoices
    /\ stCall = ""
    /\ stResult = NULL
    /\ QuoteAnalyzerIdle
    /\ AlternativeEvaluatorIdle

NextStats ==
    \/ CallCalculateStatistics
    \/ CallConfidenceInterval
    \/ CallDetectOutliers
    \/ CallGenerateHistogram
    \/ CallPercentileRank
    \/ CallCalculatePercentile

SpecStats == InitStats /\ [][NextStats]_vars

\* the library and the compositor together: the functions of the core
\* applied to an array, or to the lane with a disabled factor
SpecCore ==
    (InitStats \/ (InitIter /\ itParams = LaneMixed)) /\ [][NextStats \/ NextIter]_vars

(***************************************************************************)
(* C24: the core never mutates its inputs: calculateStatistics,            *)
(* calculatePercentileRank, detectOutliers and generateHistogram leave the *)
(* contents and the order of the array they are given unchanged, and       *)
(* runSingleIteration leaves its SimulationParams unchanged.               *)
(***************************************************************************)
C24_InputsNotMutated ==
    [][stData' = stData /\ itParams' = itParams]_vars

\* calculateStatistics has returned the summary of an array that was given
\* out of order, and the array still is
C24_Witness ==
    /\ stCall = "calculateStatistics"
    /\ ~stResult.threw
    /\ Len(stData) = 3
    /\ stData[1] > stData[2]
    /\ stResult.min = Num(stData[2])

\* ---------------------------------------------------------------------------
\* Claims about the statistics library (SpecStats)
\* ---------------------------------------------------------------------------
\* C11: statistics requested on an empty array always fail with an error:
\* calculateStatistics, calculateConfidenceInterval and detectOutliers throw
\* and return nothing, no summary, no NaN and no 0.
C11_EmptyDatasetThrows ==
    (/\ stCall \in {"calculateStatistics", "calculateConfidenceInterval", "detectOutliers"}
     /\ Len(stData) = 0) => stResult = Thrown

C11_Witness ==
    /\ stCall = "calculateConfidenceInterval"
    /\ Len(stData) = 0
    /\ stResult = Thrown

\* C14: for a non-empty set of rates the percentile of a quote is
\* 100 * (number of rates strictly less than the quote) / (number of rates):
\* rates equal to the quote are not counted, a quote not above the smallest
\* rate gets 0, a quote above every rate gets 100, the result is in [0, 100].
C14_RankIsStrictFraction ==
    (stCall \in {"calculatePercentileRank", "calculatePercentile"} /\ Len(stData) > 0) =>
        /\ LET below == {i \in 1..Len(stData) : stData[i] < stValue}
           IN  REq(stResult.value, R(100 * Cardinality(below), Len(stData)))
        /\ RLe(Num(0), stResult.value) /\ RLe(stResult.value, Num(100))
        /\ (\A i \in 1..Len(stData) : stValue <= stData[i]) => REq(stResult.value, Num(0))
        /\ (\A i \in 1..Len(stData) : stValue > stData[i]) => REq(stResult.value, Num(100))

C14_Witness ==
    /\ stCall = "calculatePercentile"
    /\ \E i, j \in 1..Len(stData) : stData[i] = stValue /\ stData[j] < stValue
    /\ REq(stResult.value, R(100, 3))

\* C15: the quote evaluator is monotonic: for a fixed set of rates and two
\* quotes q1 <= q2, the percentile of q2 is not less than that of q1.
C15_RankMonotonic ==
    /\ stCall = "calculatePercentile" =>
          \A q \in ValueChoices :
             /\ q <= stValue => RLe(calculatePercentile(q, stData), stResult.value)
             /\ q >= stValue => RGe(calculatePercentile(q, stData), stResult.value)
    /\ stCall = "calculatePercentileRank" =>
          \A q \in ValueChoices :
             /\ q <= stValue => RLe(calculatePercentileRank(q, stData), stResult.value)
             /\ q >= stValue => RGe(calculatePercentileRank(q, stData), stResult.value)

C15_Witness ==
    /\ stCall = "calculatePercentile"
    /\ \E q \in ValueChoices :
          /\ q < stValue
          /\ RLt(calculatePercentile(q, stData), stResult.value)
          /\ RLt(Num(0), calculatePercentile(q, stData))

\* C19: for every non-empty sorted sample percentile(sorted, 50) is the
\* standard median (the middle element for odd length, the mean of the two
\* middle elements for even length), and calculateStatistics reports that
\* value as both median and p50.
C19_MedianIsP50 ==
    (stCall = "calculateStatistics" /\ Len(stData) > 0) =>
        LET sorted == SortedCopy(stData)
            n      == Len(sorted)
            middle == IF n % 2 = 1 THEN Num(sorted[(n + 1) \div 2])
                      ELSE R(sorted[n \div 2] + sorted[n \div 2 + 1], 2)
        IN  /\ REq(percentile(sorted, 50), middle)
            /\ REq(stResult.median, middle)
            /\ REq(stResult.p50, middle)

C19_Witness ==
    /\ stCall = "calculateStatistics"
    /\ Len(stData) = 2
    /\ stData[1] > stData[2]
    /\ REq(stResult.median, R(5, 2))
    /\ REq(stResult.p50, R(5, 2))

\* the bins of a histogram that count value: those whose range holds it, the
\* last bin holding its upper end too
BinsHolding(histogram, value) ==
    {k \in 1..Len(histogram) :
        /\ RLe(histogram[k].binStart, Num(value))
        /\ \/ RLt(Num(value), histogram[k].binEnd)
           \/ k = Len(histogram) /\ REq(Num(value), histogram[k].binEnd)}

RECURSIVE SumCounts(_, _)
SumCounts(histogram, k) == IF k = 0 THEN 0 ELSE histogram[k].count + SumCounts(histogram, k - 1)

RECURSIVE SumFrequencies(_, _)
SumFrequencies(histogram, k) ==
    IF k = 0 THEN Num(0) ELSE RAdd(histogram[k].frequency, SumFrequencies(histogram, k - 1))

\* C20: the histogram of any non-empty sample has the fixed number of bins
\* over [min, max], counts every sample in exactly one bin (the maximum in
\* the last one), its counts sum to the sample size and its frequencies to 1,
\* also when all the values of the sample are equal.
C20_HistogramPartitions ==
    (stCall = "generateHistogram" /\ Len(stData) > 0) =>
        /\ ~stResult.threw
        /\ Len(stResult.histogram) = defaultBins
        /\ SumCounts(stResult.histogram, defaultBins) = Len(stData)
        /\ REq(SumFrequencies(stResult.histogram, defaultBins), Num(1))
        /\ stResult.histogram[defaultBins].count >= 1
        /\ \A k \in 1..defaultBins :
              stResult.histogram[k].count =
                 Cardinality({j \in 1..Len(stData) :
                                 k \in BinsHolding(stResult.histogram, stData[j])})

(***************************************************************************)
(* C28: calculateStatistics performs no division by zero for any non-empty *)
(* sample, sizes 1, 2 and 3 included: the variance divisor n-1 is not 0,   *)
(* the skewness divisor (n-1)(n-2) and the kurtosis divisors               *)
(* (n-1)(n-2)(n-3) and (n-2)(n-3) are not 0 whenever they are used (that   *)
(* is, unless stdDev is 0), so variance, stdDev, skewness and kurtosis are *)
(* finite numbers; and skewness and kurtosis are 0 whenever stdDev is 0.   *)
(***************************************************************************)
C28_NoDivisionByZero ==
    (stCall = "calculateStatistics" /\ Len(stData) > 0) =>
        LET n == Len(stData)
            divisorsUsed == ~REq(stResult.stdDev, Num(0))
        IN  /\ n - 1 # 0
            /\ divisorsUsed => /\ (n - 1) * (n - 2) # 0
                               /\ (n - 1) * (n - 2) * (n - 3) # 0
                               /\ (n - 2) * (n - 3) # 0
            /\ stResult.variance.den # 0
            /\ stResult.stdDev.den # 0
            /\ stResult.skewness.den # 0
            /\ stResult.kurtosis.den # 0
            /\ REq(stResult.stdDev, Num(0))
               => REq(stResult.skewness, Num(0)) /\ REq(stResult.kurtosis, Num(0))

MaxEffects == 2        \* runs of the [quote, lane] effect in one behaviour
MockIterations == 20   \* mock results of one analysis (the analyzer draws 1000)

\* a mutant: the high-risk branch climbs 4 points instead of 3
riskScoreSteep(pct) ==
    IF RLt(pct, Num(25))
    THEN RAdd(Num(2), RMul(RDiv(pct, Num(25)), Num(2)))
    ELSE IF RLt(pct, Num(75))
    THEN RAdd(Num(4), RMul(RDiv(RSub(pct, Num(25)), Num(50)), Num(3)))
    ELSE RAdd(Num(7), RMul(RDiv(RSub(pct, Num(75)), Num(25)), Num(4)))

\* riskScore, from the percentile
riskScore(pct) ==
    IF RLt(pct, Num(25))
    THEN RAdd(Num(2), RMul(RDiv(pct, Num(25)), Num(2)))
    ELSE IF RLt(pct, Num(75))
    THEN RAdd(Num(4), RMul(RDiv(RSub(pct, Num(25)), Num(50)), Num(3)))
    ELSE RAdd(Num(7), RMul(RDiv(RSub(pct, Num(75)), Num(25)), Num(3)))

\* a mutant: REJECT from percentile 90 on (>= 90) instead of above it
recommendationRejectFrom90(pct, marketVariance) ==
    LET r1 == IF RGt(pct, Num(75)) THEN "NEGOTIATE" ELSE "BOOK_NOW"
        r2 == IF RGe(pct, Num(90)) THEN "REJECT" ELSE r1
        r3 == IF RLt(pct, Num(10)) THEN "BOOK_NOW" ELSE r2
    IN  IF /\ RGe(pct, Num(10))
           /\ RLe(pct, Num(40))
           /\ RGt(marketVariance, R(-5, 100))
        THEN "WAIT" ELSE r3

\* a mutant: the REJECT test placed before the NEGOTIATE test, which then
\* overrides it
recommendationNegotiateLast(pct, marketVariance) ==
    LET r1 == IF RGt(pct, Num(90)) THEN "REJECT" ELSE "BOOK_NOW"
        r2 == IF RGt(pct, Num(75)) THEN "NEGOTIATE" ELSE r1
        r3 == IF RLt(pct, Num(10)) THEN "BOOK_NOW" ELSE r2
    IN  IF /\ RGe(pct, Num(10))
           /\ RLe(pct, Num(40))
           /\ RGt(marketVariance, R(-5, 100))
        THEN "WAIT" ELSE r3

\* recommendation: the four if statements in their order, each overriding
\* what the ones before it assigned
recommendation(pct, marketVariance) ==
    LET r0 == "BOOK_NOW"
        r1 == IF RGt(pct, Num(75)) THEN "NEGOTIATE" ELSE r0
        r2 == IF RGt(pct, Num(90)) THEN "REJECT" ELSE r1
        r3 == IF RLt(pct, Num(10)) THEN "BOOK_NOW" ELSE r2
    IN  IF /\ RGe(pct, Num(10))
           /\ RLe(pct, Num(40))
           /\ RGt(marketVariance, R(-5, 100))
        THEN "WAIT" ELSE r3

\* a mutant: the cap Math.min(95, ...) left out
confidenceUncapped(pct) == RAdd(Num(60), RSub(Num(40), RAbs(RSub(pct, Num(50)))))

\* confidence = Math.min(95, 60 + (40 - Math.abs(percentile - 50)))
confidence(pct) ==
    RMin(Num(95), RAdd(Num(60), RSub(Num(40), RAbs(RSub(pct, Num(50))))))

\* RiskGauge: normalizedScore = Math.max(0, Math.min(10, score))
normalizedScore(score) == RMax(Num(0), RMin(Num(10), score))

\* generateMockSimulationResults(baseRate, iterations), random[i] the draw
\* Math.random() of iteration i in thousandths; the results to the unit
generateMockSimulationResults(baseRate, iterations, random) ==
    [i \in 1..iterations |->
        LET randomFactor == SCALE + ((random[i] - 500) * 300) \div SCALE
        IN  (baseRate * randomFactor) \div SCALE]

\* the draws of one analysis: any number of low draws, the others high, the
\* high ones first
RandomSequences ==
    { [i \in 1..MockIterations |-> IF i <= MockIterations - k THEN 999 ELSE 0] :
         k \in 0..MockIterations }

\* the callback of analyzeQuote's timer, for the quote and lane it captured
QuoteEvaluationOf(rate, baseRate, random) ==
    LET marketVariance == R(rate - baseRate, baseRate)
        mockSimulationResults ==
            generateMockSimulationResults(baseRate, Len(random), random)
        statistics    == calculateStatistics(mockSimulationResults)
        percentileOf  == calculatePercentile(rate, mockSimulationResults)
        modelVariance == RDiv(RSub(Num(rate), statistics.mean), statistics.mean)
    IN  [marketVariance |-> marketVariance,
         modelVariance  |-> modelVariance,
         percentile     |-> percentileOf,
         riskScore      |-> riskScore(percentileOf),
         recommendation |-> recommendation(percentileOf, marketVariance),
         confidence     |-> confidence(percentileOf)]

QuoteRateChoices == {90, 100, 120}
LaneProps == {NULL, [baseRate |-> 100]}

\* the component renders with props (q, l), for the first time or because
\* they changed, and its effect runs: if (quote && lane) analyzeQuote()
QuoteAnalyzerEffect(q, l) ==
    /\ effects < MaxEffects
    /\ effects > 0 => <<q, l>> # <<quote, lane>>
    /\ effects' = effects + 1
    /\ quote' = q
    /\ lane' = l
    /\ IF l # NULL
       THEN /\ analyzing' = TRUE
            /\ timers' = Append(timers, [rate |-> q, baseRate |-> l.baseRate])
       ELSE UNCHANGED <<analyzing, timers>>
    /\ UNCHANGED evaluation
    /\ UNCHANGED <<storeVars, workers, created, controls, selection, cancelled, ended,
                   iterVars, statVars, altVars>>

\* the oldest pending 2 s timer of analyzeQuote fires
AnalyzeQuoteTimeout ==
    /\ timers # <<>>
    /\ \E random \in RandomSequences :
          evaluation' = QuoteEvaluationOf(Head(timers).rate, Head(timers).baseRate, random)
    /\ analyzing' = FALSE
    /\ timers' = Tail(timers)
    /\ UNCHANGED <<quote, lane, effects>>
    /\ UNCHANGED <<storeVars, workers, created, controls, selection, cancelled, ended,
                   iterVars, statVars, altVars>>

InitQuote ==
    /\ SimulationIdle
    /\ StatsIdle
    /\ QuoteAnalyzerIdle
    /\ AlternativeEvaluatorIdle

NextQuote ==
    \/ \E q \in QuoteRateChoices, l \in LaneProps : QuoteAnalyzerEffect(q, l)
    \/ AnalyzeQuoteTimeout

SpecQuote == InitQuote /\ [][NextQuote]_vars

\* ---------------------------------------------------------------------------
\* Claims about the quote analyzer (SpecQuote)
\* ---------------------------------------------------------------------------
\* C12 as stated: a quote whose percentile is exactly 90, and every quote
\* whose percentile is above 90, is given the recommendation REJECT.
C12_RejectFrom90 ==
    (evaluation # NULL /\ RGe(evaluation.percentile, Num(90))) =>
        evaluation.recommendation = "REJECT"

\* C12 as amended: every quote whose percentile is above 90 is given the
\* recommendation REJECT; a quote whose percentile is exactly 90 is given
\* NEGOTIATE.
C12_RejectAbove90 ==
    evaluation # NULL =>
        /\ RGt(evaluation.percentile, Num(90)) => evaluation.recommendation = "REJECT"
        /\ REq(evaluation.percentile, Num(90)) => evaluation.recommendation = "NEGOTIATE"

C12_Witness ==
    /\ evaluation # NULL
    /\ REq(evaluation.percentile, Num(90))
    /\ evaluation.recommendation = "NEGOTIATE"

\* C13: the recommendation is a total function of (percentile,
\* marketVariance) for percentile in [0, 100]: REJECT above 90, NEGOTIATE
\* above 75 up to 90, BOOK_NOW below 10 (so for a quote below every rate),
\* WAIT exactly when 10 <= percentile <= 40 and marketVariance > -0.05,
\* BOOK_NOW in every remaining case.
C13_RecommendationTable ==
    evaluation # NULL =>
        LET p    == evaluation.percentile
            wait == /\ 10 * p.den <= p.num /\ p.num <= 40 * p.den
                    /\ RGt(evaluation.marketVariance, R(-1, 20))
        IN  /\ p.den > 0 /\ 0 <= p.num /\ p.num <= 100 * p.den
            /\ evaluation.recommendation \in {"BOOK_NOW", "WAIT", "NEGOTIATE", "REJECT"}
            /\ evaluation.recommendation = "REJECT" <=> p.num > 90 * p.den
            /\ evaluation.recommendation = "NEGOTIATE" <=>
                  (p.num > 75 * p.den /\ p.num <= 90 * p.den)
            /\ evaluation.recommendation = "WAIT" <=> wait
            /\ p.num < 10 * p.den => evaluation.recommendation = "BOOK_NOW"
            /\ (p.num <= 75 * p.den /\ ~wait) => evaluation.recommendation = "BOOK_NOW"

C13_Witness ==
    /\ evaluation # NULL
    /\ REq(evaluation.percentile, Num(40))
    /\ REq(evaluation.marketVariance, Num(0))
    /\ evaluation.recommendation = "WAIT"

\* C16: riskScore is 2 + (p/25)*2 for p < 25, 4 + ((p-25)/50)*3 for
\* 25 <= p < 75 and 7 + ((p-75)/25)*3 for p >= 75; for every percentile in
\* [0, 100] it lies in [0, 10], the pieces meet at p = 25 and p = 75, and it
\* never decreases as the percentile increases.
C16_RiskScorePiecewise ==
    evaluation # NULL =>
        LET p == evaluation.percentile
            expected ==
                IF p.num < 25 * p.den THEN R(50 * p.den + 2 * p.num, 25 * p.den)
                ELSE IF p.num < 75 * p.den
                THEN R(200 * p.den + 3 * (p.num - 25 * p.den), 50 * p.den)
                ELSE R(175 * p.den + 3 * (p.num - 75 * p.den), 25 * p.den)
        IN  /\ REq(evaluation.riskScore, expected)
            /\ RLe(Num(0), evaluation.riskScore) /\ RLe(evaluation.riskScore, Num(10))
            /\ REq(normalizedScore(evaluation.riskScore), evaluation.riskScore)
            /\ REq(riskScore(Num(25)), R(2 * 25 + 2 * 25, 25))
            /\ REq(riskScore(Num(75)), R(4 * 50 + 3 * (75 - 25), 50))
            /\ \A k \in 0..MockIterations :
                  LET q == R(100 * k, MockIterations)
                  IN  /\ RLe(q, p) => RLe(riskScore(q), evaluation.riskScore)
                      /\ RGe(q, p) => RGe(riskScore(q), evaluation.riskScore)

C16_Witness ==
    /\ evaluation # NULL
    /\ REq(evaluation.percentile, Num(75))
    /\ REq(evaluation.riskScore, Num(7))

\* C17: for every percentile in [0, 100] the confidence is
\* clamp(60 + (40 - |percentile - 50|), 0, 95): never above 95, never below 0.
C17_ConfidenceClamped ==
    evaluation # NULL =>
        LET p        == evaluation.percentile
            distance == IF p.num >= 50 * p.den THEN R(p.num - 50 * p.den, p.den)
                        ELSE R(50 * p.den - p.num, p.den)
            raw      == RSub(Num(100), distance)
            clamped  == IF RLt(raw, Num(0)) THEN Num(0)
                        ELSE IF RGt(raw, Num(95)) THEN Num(95) ELSE raw
        IN  /\ REq(evaluation.confidence, clamped)
            /\ RLe(Num(0), evaluation.confidence)
            /\ RLe(evaluation.confidence, Num(95))

C17_Witness ==
    /\ evaluation # NULL
    /\ REq(evaluation.percentile, Num(50))
    /\ REq(evaluation.confidence, Num(95))

(***************************************************************************)
(* C30: whenever the analyzer shows an evaluation (a lane is given,        *)
(* analyzing is false and evaluation is not null), that evaluation was     *)
(* computed from the current quote and lane: it is, as a whole, the        *)
(* evaluation of the current quote against the current lane for some mock  *)
(* results, never the one an earlier pending timer computed for the quote  *)
(* or lane that was replaced.                                              *)
(***************************************************************************)
C30_EvaluationIsCurrent ==
    (lane # NULL /\ ~analyzing /\ evaluation # NULL)
    => \E random \in RandomSequences :
          evaluation = QuoteEvaluationOf(quote, lane.baseRate, random)

\* ---------------------------------------------------------------------------
\* src/client/src/components/decision/alternative-evaluator.tsx,
\* AlternativeEvaluator
\* ---------------------------------------------------------------------------
\* the alternatives runAlternativeAnalysis builds for the quote's rate
alternatives(baseRate) ==
    LET holdingCostPerDay == R(baseRate, SCALE)
        waitCost == RAdd(RMul(Num(baseRate), R(94, 100)), RMul(holdingCostPerDay, Num(7)))
    IN  << [type |-> "book", expectedCost |-> Num(baseRate),
            confidence |-> 95, riskLevel |-> "low"],
           [type |-> "wait", expectedCost |-> waitCost,
            confidence |-> 67, riskLevel |-> "medium"],
           [type |-> "split",
            expectedCost |-> RAdd(RMul(Num(baseRate), R(3, 10)), RMul(waitCost, R(7, 10))),
            confidence |-> 78, riskLevel |-> "medium"],
           [type |-> "reroute", expectedCost |-> RMul(Num(baseRate), R(105, 100)),
            confidence |-> 45, riskLevel |-> "high"] >>

RECURSIVE InsertByCost(_, _)
InsertByCost(sorted, alt) ==
    IF Len(sorted) = 0 THEN <<alt>>
    ELSE IF RLt(alt.expectedCost, sorted[Len(sorted)].expectedCost)
         THEN Append(InsertByCost(SubSeq(sorted, 1, Len(sorted) - 1), alt),
                     sorted[Len(sorted)])
         ELSE Append(sorted, alt)

\* .sort((a, b) => a.expectedCost - b.expectedCost), a stable sort
RECURSIVE SortByCost(_)
SortByCost(alts) ==
    IF Len(alts) = 0 THEN <<>>
    ELSE InsertByCost(SortByCost(SubSeq(alts, 1, Len(alts) - 1)), alts[Len(alts)])

\* a mutant: the comparator reversed, b.expectedCost - a.expectedCost
getRecommendedAlternativeCostliest(res) ==
    IF res = NULL THEN NULL
    ELSE LET sorted == SortByCost(SelectSeq(res, LAMBDA alt : alt.confidence > 60))
         IN  IF Len(sorted) = 0 THEN NULL ELSE sorted[Len(sorted)]

\* getRecommendedAlternative(), for the component's state results
getRecommendedAlternative(res) ==
    IF res = NULL THEN NULL
    ELSE LET sorted == SortByCost(SelectSeq(res, LAMBDA alt : alt.confidence > 60))
         IN  IF Len(sorted) = 0 THEN NULL ELSE sorted[1]

AlternativeRateChoices == {-1000, 0, 1, 7, 13, 1000, 2000, 5000}

\* the page passes another quote to the component
AlternativeQuoteChanged(q) ==
    /\ q # altQuote
    /\ altQuote' = q
    /\ UNCHANGED <<altAnalyzing, altResults, altTimer>>
    /\ UNCHANGED <<storeVars, workers, created, controls, selection, cancelled, ended,
                   iterVars, statVars, quoteVars>>

\* runAlternativeAnalysis(), the handler of the button that is rendered while
\* there are no results and no analysis is running
runAlternativeAnalysis ==
    /\ altResults = NULL /\ ~altAnalyzing
    /\ altAnalyzing' = TRUE
    /\ altTimer' = [rate |-> altQuote]
    /\ UNCHANGED <<altResults, altQuote>>
    /\ UNCHANGED <<storeVars, workers, created, controls, selection, cancelled, ended,
                   iterVars, statVars, quoteVars>>

\* the 3 s timer of runAlternativeAnalysis fires, with the quote it captured
AlternativeTimeout ==
    /\ altTimer # NULL
    /\ altResults' = alternatives(altTimer.rate)
    /\ altAnalyzing' = FALSE
    /\ altTimer' = NULL
    /\ UNCHANGED altQuote
    /\ UNCHANGED <<storeVars, workers, created, controls, selection, cancelled, ended,
                   iterVars, statVars, quoteVars>>

InitAlt ==
    /\ SimulationIdle
    /\ StatsIdle
    /\ QuoteAnalyzerIdle
    /\ altAnalyzing = FALSE
    /\ altResults = NULL
    /\ altTimer = NULL
    /\ altQuote \in AlternativeRateChoices

NextAlt ==
    \/ \E q \in AlternativeRateChoices : AlternativeQuoteChanged(q)
    \/ runAlternativeAnalysis
    \/ AlternativeTimeout

SpecAlt == InitAlt /\ [][NextAlt]_vars

\* C18: the recommended strategy has confidence above 60 and an expected
\* cost not greater than that of any other strategy with confidence above
\* 60; none is recommended when no strategy exceeds the floor or no analysis
\* has run; Reroute (confidence 45) is never recommended, whatever the rate.
C18_RecommendedIsCheapestConfident ==
    LET recommended == getRecommendedAlternative(altResults)
    IN  /\ altResults = NULL => recommended = NULL
        /\ altResults # NULL =>
              /\ recommended # NULL
              /\ \E i \in 1..Len(altResults) : altResults[i] = recommended
              /\ recommended.confidence > 60
              /\ \A i \in 1..Len(altResults) :
                    altResults[i].confidence > 60 =>
                        RLe(recommended.expectedCost, altResults[i].expectedCost)
              /\ recommended.type # "reroute"
              /\ getRecommendedAlternative(
                    [i \in 1..Len(altResults) |->
                        [altResults[i] EXCEPT !.confidence = Min(@, 60)]]) = NULL

\* Reroute is the cheapest strategy and is passed over for its confidence
C18_Witness ==
    /\ altResults # NULL
    /\ altResults[4].type = "reroute"
    /\ getRecommendedAlternative(altResults).type = "book"
    /\ RLt(altResults[4].expectedCost, getRecommendedAlternative(altResults).expectedCost)

============================================================================
